---- MODULE Spec2Model ----
(***************************************************************************)
(* HealthForge backend: patient registration with e-mail verification,     *)
(* PIN login, doctor accounts, consents / assignments / reports and the    *)
(* report chat, modelled as state machines over the MySQL tables the       *)
(* handlers read and write.  Every table is a set of rows; every route     *)
(* handler is one action that runs all of its SQL statements against a     *)
(* database whose statements succeed.                                      *)
(***************************************************************************)
EXTENDS Integers, Sequences, FiniteSets, TLC

\* ------------------------------------------------------------------ bounds
MaxTicks == 1        \* the clock advances this many times
TickMinutes == 10    \* granularity of the clock
MaxIds == 5          \* uuid4 values and report ids handed out
MaxAttempts == 6     \* failed attempts are counted up to here
MaxTextLen == 3      \* pieces of an LLM response text

\* ------------------------------------------------------- program constants
ExpiryMinutes == 10  \* timedelta(minutes=10)
AttemptLimit == 5    \* "attempts < 5"
PinLength == 6       \* r'^\d{6}$'

\* ------------------------------------------------------------ input values
NoValue == "None"
Digits == {"0", "1", "2", "3", "4", "5", "6", "7", "8", "9"}
Emails == {"ann@x.io", "bob@x.io"}
Pin1 == <<"1", "2", "3", "4", "5", "6">>
Pin2 == <<"6", "5", "4", "3", "2", "1">>
ShortPin == <<"1", "2", "3">>
Placeholder == <<"p", "l", "a", "c", "e", "h", "o", "l", "d", "e", "r">>
NoPin == <<>>        \* an absent or empty "pin" field
Pins == {Pin1, Pin2}
Codes == {"000111", "000222"}
\* the verify-email requests the server handles at the same time
Workers == {1, 2}
\* no request of this worker is being handled
Idle == [pc |-> "idle"]

VARIABLES
  now,              \* datetime.now(), in minutes
  patients,         \* table patients
  verifications,    \* table email_verifications
  nextId,           \* next uuid4 / report id
  regPin,           \* history: the PIN of the register request behind each e-mail's record
  resp,             \* the response of the latest request
  doctors,          \* table doctors
  patient_reports,  \* table patient_reports
  consents,         \* table consents
  assignments,      \* table assignments
  medical_reports,  \* table medical_reports
  test_results,     \* table test_results
  query_history,    \* table query_history
  requests,         \* the verify-email request each worker is handling, and its position
  faiss_indexes     \* RAG service: the saved indexes under the directory faiss_indexes

userVars == <<now, patients, verifications, regPin>>
doctorVars == <<doctors>>
dataVars == <<patient_reports, consents, assignments>>
chatVars == <<medical_reports, test_results, query_history>>
vars == <<now, patients, verifications, nextId, regPin, resp, doctors,
          patient_reports, consents, assignments,
          medical_reports, test_results, query_history, requests, faiss_indexes>>

\* ------------------------------------------------------------ validation
\* re.match(r'^\d{6}$', pin)
validate_pin(pin) ==
  /\ Len(pin) = PinLength
  /\ \A i \in 1..Len(pin) : pin[i] \in Digits

\* hashlib.sha256(s.encode()).hexdigest(): injective on the inputs used, never the identity
sha256(s) == <<"sha256", s>>

\* ------------------------------------------------------ UserDB: patients
\* SELECT * FROM patients WHERE email = %s AND is_active = TRUE
get_patient_by_email(email) ==
  {p \in patients : p.email = email /\ p.is_active}

\* SELECT * FROM patients WHERE id = %s AND is_active = TRUE
get_patient_by_id(patient_id) ==
  {p \in patients : p.id = patient_id /\ p.is_active}

\* a membership test on the wrong column value
patient_exists_inactive(email) ==
  {p \in patients : p.email = email /\ ~p.is_active} # {}

patient_exists(email) == get_patient_by_email(email) # {}

\* ------------------------------------------- UserDB: email verifications
\* DELETE FROM email_verifications WHERE email = %s
delete_verification(rows, email) == {v \in rows : v.email # email}

\* delete any existing record for the e-mail, insert the new one with the
\* hashed PIN and an expiry of now + 10 minutes
create_email_verification(rows, email, code, pin, t) ==
  delete_verification(rows, email) \cup
    {[email |-> email, verification_code |-> code, pin |-> sha256(pin),
      expires_at |-> t + ExpiryMinutes, verified |-> FALSE, attempts |-> 0]}

\* the selection without the verification_code condition
MatchingVerifications_anyCode(email, code, t) ==
  {v \in verifications :
     /\ v.email = email
     /\ v.expires_at > t
     /\ v.verified = FALSE
     /\ v.attempts < AttemptLimit}

\* the selection with an inclusive expiry comparison
MatchingVerifications_inclusive(email, code, t) ==
  {v \in verifications :
     /\ v.email = email
     /\ v.verification_code = code
     /\ v.expires_at >= t
     /\ v.verified = FALSE
     /\ v.attempts < AttemptLimit}

\* the rows selected by verify_email_code
MatchingVerifications(email, code, t) ==
  {v \in verifications :
     /\ v.email = email
     /\ v.verification_code = code
     /\ v.expires_at > t
     /\ v.verified = FALSE
     /\ v.attempts < AttemptLimit}

\* UPDATE email_verifications SET verified = TRUE WHERE id = %s
MarkVerified(rows, v) == (rows \ {v}) \cup {[v EXCEPT !.verified = TRUE]}

\* UPDATE email_verifications SET attempts = attempts + 1 WHERE email = %s AND verified = FALSE
IncrementAttempts(rows, email) ==
  {IF v.email = email /\ v.verified = FALSE
     THEN [v EXCEPT !.attempts = v.attempts + 1] ELSE v : v \in rows}

\* SELECT * FROM email_verifications WHERE email = %s AND expires_at > %s AND verified = FALSE
get_pending_verification(email, t) ==
  {v \in verifications : v.email = email /\ v.expires_at > t /\ v.verified = FALSE}

\* INSERT INTO patients (...) with the PIN column copied from the record
create_patient_from_verification(rows, v, id) ==
  rows \cup {[id |-> id, email |-> v.email, pin |-> v.pin, is_active |-> TRUE]}

\* the recreated record built through create_email_verification's hashing
resend_pin_rehashed(verification) == sha256(Placeholder)

\* the PIN column resend_verification writes into the recreated record
resend_pin(verification) == verification.pin

\* ---------------------------------------------------------------- Init
Init ==
  /\ now = 0
  /\ patients = {}
  /\ verifications = {}
  /\ nextId = 1
  /\ regPin = [e \in Emails |-> NoPin]
  /\ resp = [op |-> "none", status |-> 0]
  /\ doctors = {}
  /\ patient_reports = {}
  /\ consents = {}
  /\ assignments = {}
  /\ medical_reports = {}
  /\ test_results = {}
  /\ query_history = {}
  /\ requests = [w \in Workers |-> Idle]
  /\ faiss_indexes = {}

\* ------------------------------------------------------- patient routes
\* POST /api/patients/register
register_patient(email, pin, code, smtpOk) ==
  /\ UNCHANGED <<now, patients, nextId, doctors, dataVars, chatVars, requests, faiss_indexes>>
  /\ IF pin = NoPin \/ ~validate_pin(pin)
     THEN /\ resp' = [op |-> "register_patient", status |-> 400, email |-> email, pin |-> pin, mailed |-> FALSE]
          /\ UNCHANGED <<verifications, regPin>>
     ELSE IF patient_exists(email)
     THEN /\ resp' = [op |-> "register_patient", status |-> 409, email |-> email, pin |-> pin, mailed |-> FALSE]
          /\ UNCHANGED <<verifications, regPin>>
     ELSE /\ verifications' = create_email_verification(verifications, email, code, pin, now)
          /\ regPin' = [regPin EXCEPT ![email] = pin]
          /\ resp' = [op |-> "register_patient", status |-> IF smtpOk THEN 200 ELSE 500, email |-> email, pin |-> pin,
                      mailed |-> smtpOk]

\* POST /api/patients/verify-email
verify_email(email, code) ==
  /\ UNCHANGED <<now, regPin, doctors, dataVars, chatVars, requests, faiss_indexes>>
  /\ IF email = NoValue \/ code = NoValue
     THEN /\ resp' = [op |-> "verify_email", status |-> 400, email |-> email, code |-> code]
          /\ UNCHANGED <<patients, verifications, nextId>>
     ELSE IF MatchingVerifications(email, code, now) # {}
     THEN \E v \in MatchingVerifications(email, code, now) :
            /\ nextId <= MaxIds
            /\ patients' = create_patient_from_verification(patients, v, nextId)
            /\ verifications' = delete_verification(MarkVerified(verifications, v), email)
            /\ nextId' = nextId + 1
            /\ resp' = [op |-> "verify_email", status |-> 201, email |-> email, code |-> code,
                        patientId |-> nextId]
     ELSE /\ \A v \in verifications : v.email = email => v.attempts < MaxAttempts
          /\ verifications' = IncrementAttempts(verifications, email)
          /\ resp' = [op |-> "verify_email", status |-> 400, email |-> email, code |-> code]
          /\ UNCHANGED <<patients, nextId>>

\* POST /api/patients/resend-verification
resend_verification(email, new_code, smtpOk) ==
  /\ UNCHANGED <<now, patients, nextId, regPin, doctors, dataVars, chatVars, requests, faiss_indexes>>
  /\ IF email = NoValue
     THEN /\ resp' = [op |-> "resend_verification", status |-> 400, email |-> email, mailed |-> FALSE]
          /\ UNCHANGED verifications
     ELSE IF get_pending_verification(email, now) = {}
     THEN /\ resp' = [op |-> "resend_verification", status |-> 404, email |-> email, mailed |-> FALSE]
          /\ UNCHANGED verifications
     ELSE \E verification \in get_pending_verification(email, now) :
            /\ verifications' = delete_verification(verifications, email) \cup
                 {[email |-> email, verification_code |-> new_code,
                   pin |-> resend_pin(verification),
                   expires_at |-> now + ExpiryMinutes, verified |-> FALSE, attempts |-> 0]}
            /\ resp' = [op |-> "resend_verification", status |-> IF smtpOk THEN 200 ELSE 500, email |-> email,
                        mailed |-> smtpOk]

\* UserDB.verify_patient_pin: the matching patient rows without their pin
\* column (patient.pop('pin')); the empty set stands for None
verify_patient_pin(email, pin) ==
  {[id |-> p.id, email |-> p.email, is_active |-> p.is_active] :
     p \in {q \in get_patient_by_email(email) : q.pin = sha256(pin)}}

\* POST /api/patients/login
login_patient(email, pin) ==
  /\ UNCHANGED <<userVars, nextId, doctors, dataVars, chatVars, requests, faiss_indexes>>
  /\ IF email = NoValue \/ pin = NoPin
     THEN resp' = [op |-> "login_patient", status |-> 400, email |-> email, pin |-> pin]
     ELSE IF verify_patient_pin(email, pin) # {}
     THEN \E patient \in verify_patient_pin(email, pin) :
            resp' = [op |-> "login_patient", status |-> 200, email |-> email, pin |-> pin,
                     patient |-> [id |-> patient.id, email |-> patient.email]]
     ELSE resp' = [op |-> "login_patient", status |-> 401, email |-> email, pin |-> pin]

\* the clock
Tick ==
  /\ now + TickMinutes <= MaxTicks * TickMinutes
  /\ now' = now + TickMinutes
  /\ UNCHANGED <<patients, verifications, nextId, regPin, resp, doctors, dataVars, chatVars, requests, faiss_indexes>>

Next ==
  \/ \E email \in Emails, pin \in Pins \cup {ShortPin},
        code \in Codes, smtpOk \in BOOLEAN :
       register_patient(email, pin, code, smtpOk)
  \/ \E email \in Emails \cup {NoValue}, code \in Codes \cup {NoValue} :
       verify_email(email, code)
  \/ \E email \in Emails \cup {NoValue}, code \in Codes, smtpOk \in BOOLEAN :
       resend_verification(email, code, smtpOk)
  \/ \E email \in Emails \cup {NoValue}, pin \in Pins \cup {NoPin} :
       login_patient(email, pin)
  \/ Tick

Spec == Init /\ [][Next]_vars

\* ======================================================================
\* Doctor accounts (routes/users.py, UserDB doctor operations)
\* ======================================================================
License1 == <<"M", "E", "D", "-", "1">>
License2 == <<"M", "E", "D", "-", "2">>
ShortLicense == <<"M", "D">>
Licenses == {License1, License2}
Password1 == <<"S", "e", "c", "u", "r", "e", "@", "1">>
Password2 == <<"S", "e", "c", "u", "r", "e", "@", "2">>
WeakPassword == <<"s", "e", "c", "r", "e", "t", "1", "2">>
Passwords == {Password1, Password2}
NoPassword == <<>>
UpperCase == {"A", "B", "C", "D", "E", "F", "G", "H", "I", "J", "K", "L", "M",
              "N", "O", "P", "Q", "R", "S", "T", "U", "V", "W", "X", "Y", "Z"}
LowerCase == {"a", "b", "c", "d", "e", "f", "g", "h", "i", "j", "k", "l", "m",
              "n", "o", "p", "q", "r", "s", "t", "u", "v", "w", "x", "y", "z"}
Special == {"@", "$", "!", "%", "*", "?", "&"}
MinPasswordLength == 8
MinLicenseLength == 5
\* the "verified" key of the request body: absent, true or false
VerifiedFields == {"absent", "true", "false"}

\* validate_password
validate_password(password) ==
  /\ Len(password) >= MinPasswordLength
  /\ \E i \in 1..Len(password) : password[i] \in UpperCase
  /\ \E i \in 1..Len(password) : password[i] \in LowerCase
  /\ \E i \in 1..Len(password) : password[i] \in Digits
  /\ \E i \in 1..Len(password) : password[i] \in Special

\* SELECT * FROM doctors WHERE license_id = %s AND is_active = TRUE
get_doctor_by_license_id(license_id) ==
  {d \in doctors : d.license_id = license_id /\ d.is_active}

doctor_exists(license_id) == get_doctor_by_license_id(license_id) # {}

\* doctor_data.get('verified', False)
verified_column(verifiedField) == verifiedField = "true"

\* INSERT INTO doctors (...)
create_doctor(rows, id, license_id, password, verifiedField) ==
  rows \cup {[id |-> id, license_id |-> license_id, password |-> sha256(password),
              verified |-> verified_column(verifiedField), is_active |-> TRUE]}

\* UPDATE doctors SET verified = TRUE WHERE id = %s; the rows it changes
verify_doctor_changed(doctor_id) ==
  {d \in doctors : d.id = doctor_id /\ ~d.verified}

verify_doctor(rows, doctor_id) ==
  {IF d.id = doctor_id THEN [d EXCEPT !.verified = TRUE] ELSE d : d \in rows}

\* UserDB.verify_doctor_password: the matching rows without the password column
verify_doctor_password(license_id, password) ==
  {[id |-> d.id, license_id |-> d.license_id, verified |-> d.verified] :
     d \in {x \in get_doctor_by_license_id(license_id) : x.password = sha256(password)}}

\* POST /api/doctors/register
register_doctor(licenseId, password, verifiedField) ==
  /\ UNCHANGED <<userVars, dataVars, chatVars, requests, faiss_indexes>>
  /\ IF \/ password = NoPassword
        \/ Len(licenseId) < MinLicenseLength
        \/ ~validate_password(password)
     THEN /\ resp' = [op |-> "register_doctor", status |-> 400]
          /\ UNCHANGED <<doctors, nextId>>
     ELSE IF doctor_exists(licenseId)
     THEN /\ resp' = [op |-> "register_doctor", status |-> 409]
          /\ UNCHANGED <<doctors, nextId>>
     ELSE /\ nextId <= MaxIds
          /\ doctors' = create_doctor(doctors, nextId, licenseId, password, verifiedField)
          /\ nextId' = nextId + 1
          /\ resp' = [op |-> "register_doctor", status |-> 201, doctorId |-> nextId]

\* POST /api/doctors/login
login_doctor(licenseId, password) ==
  /\ UNCHANGED <<userVars, nextId, doctors, dataVars, chatVars, requests, faiss_indexes>>
  /\ IF password = NoPassword
     THEN resp' = [op |-> "login_doctor", status |-> 400]
     ELSE IF verify_doctor_password(licenseId, password) # {}
     THEN \E doctor \in verify_doctor_password(licenseId, password) :
            resp' = [op |-> "login_doctor", status |-> 200,
                     doctor |-> [id |-> doctor.id, licenseId |-> doctor.license_id,
                                 verified |-> doctor.verified]]
     ELSE resp' = [op |-> "login_doctor", status |-> 401]

\* POST /api/doctors/<doctor_id>/verify
verify_doctor_account(doctor_id) ==
  /\ UNCHANGED <<userVars, nextId, dataVars, chatVars, requests, faiss_indexes>>
  /\ doctors' = verify_doctor(doctors, doctor_id)
  /\ resp' = [op |-> "verify_doctor_account", doctor_id |-> doctor_id,
              status |-> IF verify_doctor_changed(doctor_id) # {} THEN 200 ELSE 404]

NextDoctors ==
  \/ \E licenseId \in Licenses \cup {ShortLicense},
        password \in Passwords \cup {WeakPassword, NoPassword},
        verifiedField \in VerifiedFields :
       register_doctor(licenseId, password, verifiedField)
  \/ \E licenseId \in Licenses, password \in Passwords \cup {NoPassword} :
       login_doctor(licenseId, password)
  \/ \E doctor_id \in 1..MaxIds : verify_doctor_account(doctor_id)

SpecDoctors == Init /\ [][NextDoctors]_vars


\* ======================================================================
\* Reports, consents and assignments (routes/data.py, PatientReportDB),
\* account deletion (UserDB.delete_patient) and the summary service's
\* medical_reports rows (summary_service.py, MedicalReportDB)
\* ======================================================================
NoId == 0                \* None in an id column
DoctorIds == {1, 2}
SeedPatientIds == {1, 2}
NoPath == "None"
TestNames == {"HbA1c"}

\* request bodies of POST /api/consents and POST /api/assignments: complete
\* ones, and one without its doctorId / patientId
ConsentBodies ==
  [patientId : SeedPatientIds, doctorId : DoctorIds, active : BOOLEAN]
    \cup {[patientId |-> 1, doctorId |-> NoId, active |-> TRUE]}

AssignmentBodies ==
  [doctorId : DoctorIds, patientId : SeedPatientIds]
    \cup {[doctorId |-> 1, patientId |-> NoId]}

\* two patients registered through register + verify-email: the accounts
\* the data routes and DELETE /api/patients/<patient_id> work on
SeedPatients ==
  {[id |-> 1, email |-> "ann@x.io", pin |-> sha256(Pin1), is_active |-> TRUE],
   [id |-> 2, email |-> "bob@x.io", pin |-> sha256(Pin2), is_active |-> TRUE]}

InitData ==
  /\ now = 0
  /\ patients = SeedPatients
  /\ verifications = {}
  /\ nextId = 3
  /\ regPin = [e \in Emails |-> IF e = "ann@x.io" THEN Pin1 ELSE Pin2]
  /\ resp = [op |-> "none", status |-> 0]
  /\ doctors = {}
  /\ patient_reports = {}
  /\ consents = {}
  /\ assignments = {}
  /\ medical_reports = {}
  /\ test_results = {}
  /\ query_history = {}
  /\ requests = [w \in Workers |-> Idle]
  /\ faiss_indexes = {}

\* INSERT INTO patient_reports (...)
create_report_row(rows, id, patientId) ==
  rows \cup {[id |-> id, patient_id |-> patientId, status |-> "pending"]}

\* INSERT INTO consents (...): active defaults to True
create_consent_row(rows, id, patientId, doctorId, active) ==
  rows \cup {[id |-> id, patient_id |-> patientId, doctor_id |-> doctorId, active |-> active]}

\* UPDATE consents SET active = FALSE WHERE id = %s; the rows it changes
revoke_consent_changed(consent_id) ==
  {c \in consents : c.id = consent_id /\ c.active}

revoke_consent_rows(rows, consent_id) ==
  {IF c.id = consent_id THEN [c EXCEPT !.active = FALSE] ELSE c : c \in rows}

\* INSERT INTO assignments (id, doctor_id, patient_id, assigned_at)
\*   ON DUPLICATE KEY UPDATE assigned_at = VALUES(assigned_at):
\* a row whose id exists keeps its doctor and patient
create_assignment_row(rows, id, doctorId, patientId) ==
  IF \E a \in rows : a.id = id
    THEN rows
    ELSE rows \cup {[id |-> id, doctor_id |-> doctorId, patient_id |-> patientId]}

\* the join condition of get_assignments_by_doctor_id without c.active = TRUE
ConsentJoin_anyConsent(a, c) ==
  /\ c.doctor_id = a.doctor_id
  /\ c.patient_id = a.patient_id

\* INNER JOIN consents c ON c.doctor_id = a.doctor_id
\*   AND c.patient_id = a.patient_id AND c.active = TRUE
ConsentJoin(a, c) ==
  /\ c.doctor_id = a.doctor_id
  /\ c.patient_id = a.patient_id
  /\ c.active = TRUE

\* LEFT JOIN patients p ON a.patient_id = p.id: the e-mail column, or None
JoinedEmail(a) ==
  IF \E q \in patients : q.id = a.patient_id
    THEN (CHOOSE q \in patients : q.id = a.patient_id).email
    ELSE NoValue

\* PatientReportDB.get_assignments_by_doctor_id: one row per joined
\* (assignment, consent) pair, formatted for the response
get_assignments_by_doctor_id(doctor_id) ==
  LET joined == {pair \in assignments \X consents :
                   pair[1].doctor_id = doctor_id /\ ConsentJoin(pair[1], pair[2])}
  IN  [rows |-> {[id |-> pair[1].id, doctorId |-> pair[1].doctor_id,
                  patientId |-> pair[1].patient_id,
                  patientEmail |-> JoinedEmail(pair[1])] : pair \in joined},
       length |-> Cardinality(joined)]

\* UserDB.delete_patient: the five DELETE statements, in order
delete_patient_reports(rows, patient_id) == {r \in rows : r.patient_id # patient_id}
delete_patient_consents(rows, patient_id) == {c \in rows : c.patient_id # patient_id}
delete_patient_assignments(rows, patient_id) == {a \in rows : a.patient_id # patient_id}
delete_patient_verifications(rows, patient_id) ==
  {v \in rows : ~\E q \in patients : q.id = patient_id /\ q.email = v.email}
delete_patient_row(rows, patient_id) == {q \in rows : q.id # patient_id}

\* MedicalReportDB.save_report: processed_status is always 'processed'
save_report(rows, report_id, patient_id, faiss_index_path) ==
  rows \cup {[report_id |-> report_id, patient_id |-> patient_id,
              processed_status |-> "processed", faiss_index_path |-> faiss_index_path]}

\* MedicalReportDB.save_test_results: one row per extracted test
save_test_results(rows, report_id, tests) ==
  rows \cup {[report_id |-> report_id, test_name |-> t] : t \in tests}

\* POST /api/reports (routes/data.py)
create_report(patientId) ==
  /\ UNCHANGED <<userVars, doctors, consents, assignments, chatVars, requests, faiss_indexes>>
  /\ IF patientId = NoId
     THEN /\ resp' = [op |-> "create_report", status |-> 400]
          /\ UNCHANGED <<patient_reports, nextId>>
     ELSE /\ nextId <= MaxIds
          /\ patient_reports' = create_report_row(patient_reports, nextId, patientId)
          /\ nextId' = nextId + 1
          /\ resp' = [op |-> "create_report", status |-> 201]

\* POST /api/consents
create_consent(patientId, doctorId, active) ==
  /\ UNCHANGED <<userVars, doctors, patient_reports, assignments, chatVars, requests, faiss_indexes>>
  /\ IF patientId = NoId \/ doctorId = NoId
     THEN /\ resp' = [op |-> "create_consent", status |-> 400]
          /\ UNCHANGED <<consents, nextId>>
     ELSE /\ nextId <= MaxIds
          /\ consents' = create_consent_row(consents, nextId, patientId, doctorId, active)
          /\ nextId' = nextId + 1
          /\ resp' = [op |-> "create_consent", status |-> 201]

\* POST /api/consents/<consent_id>/revoke
revoke_consent(consent_id) ==
  /\ UNCHANGED <<userVars, nextId, doctors, patient_reports, assignments, chatVars, requests, faiss_indexes>>
  /\ consents' = revoke_consent_rows(consents, consent_id)
  /\ resp' = [op |-> "revoke_consent",
              status |-> IF revoke_consent_changed(consent_id) # {} THEN 200 ELSE 404]

\* POST /api/assignments: the id is the body's "id" or a new uuid4
create_assignment(id, doctorId, patientId) ==
  /\ UNCHANGED <<userVars, doctors, patient_reports, consents, chatVars, requests, faiss_indexes>>
  /\ IF doctorId = NoId \/ patientId = NoId
     THEN /\ resp' = [op |-> "create_assignment", status |-> 400]
          /\ UNCHANGED <<assignments, nextId>>
     ELSE IF id # NoId
     THEN /\ assignments' = create_assignment_row(assignments, id, doctorId, patientId)
          /\ resp' = [op |-> "create_assignment", status |-> 201]
          /\ UNCHANGED nextId
     ELSE /\ nextId <= MaxIds
          /\ assignments' = create_assignment_row(assignments, nextId, doctorId, patientId)
          /\ nextId' = nextId + 1
          /\ resp' = [op |-> "create_assignment", status |-> 201]

\* GET /api/doctors/<doctor_id>/assignments
get_doctor_assignments(doctor_id) ==
  /\ UNCHANGED <<userVars, nextId, doctors, dataVars, chatVars, requests, faiss_indexes>>
  /\ resp' = [op |-> "get_doctor_assignments", status |-> 200, doctor_id |-> doctor_id,
              assignments |-> get_assignments_by_doctor_id(doctor_id).rows,
              length |-> get_assignments_by_doctor_id(doctor_id).length]

\* DELETE /api/patients/<patient_id>
delete_patient_account(patient_id) ==
  /\ UNCHANGED <<now, nextId, regPin, doctors, chatVars, requests, faiss_indexes>>
  /\ IF get_patient_by_id(patient_id) = {}
     THEN /\ resp' = [op |-> "delete_patient_account", status |-> 404, patient_id |-> patient_id]
          /\ UNCHANGED <<patients, verifications, dataVars>>
     ELSE /\ patient_reports' = delete_patient_reports(patient_reports, patient_id)
          /\ consents' = delete_patient_consents(consents, patient_id)
          /\ assignments' = delete_patient_assignments(assignments, patient_id)
          /\ verifications' = delete_patient_verifications(verifications, patient_id)
          /\ patients' = delete_patient_row(patients, patient_id)
          /\ resp' = [op |-> "delete_patient_account", status |-> 200, patient_id |-> patient_id]

\* POST /api/report/summary (summary_service.py): textOk says that text could
\* be extracted; patient_id and tests are what the extraction returned
get_report_summary(textOk, patient_id, tests) ==
  /\ UNCHANGED <<userVars, doctors, dataVars, query_history, requests, faiss_indexes>>
  /\ IF ~textOk
     THEN /\ resp' = [op |-> "get_report_summary", status |-> 400]
          /\ UNCHANGED <<medical_reports, test_results, nextId>>
     ELSE /\ nextId <= MaxIds
          /\ medical_reports' = save_report(medical_reports, nextId, patient_id, NoPath)
          /\ test_results' = IF tests # {}
                               THEN save_test_results(test_results, nextId, tests)
                               ELSE test_results
          /\ nextId' = nextId + 1
          /\ resp' = [op |-> "get_report_summary", status |-> 200, report_id |-> nextId]

NextData ==
  \/ \E patientId \in SeedPatientIds \cup {NoId} : create_report(patientId)
  \/ \E body \in ConsentBodies : create_consent(body.patientId, body.doctorId, body.active)
  \/ \E consent_id \in {c.id : c \in consents} \cup {NoId} : revoke_consent(consent_id)
  \/ \E id \in {a.id : a \in assignments} \cup {NoId}, body \in AssignmentBodies :
       create_assignment(id, body.doctorId, body.patientId)
  \/ \E doctor_id \in DoctorIds : get_doctor_assignments(doctor_id)
  \/ \E patient_id \in SeedPatientIds \cup {NoId} : delete_patient_account(patient_id)
  \/ \E textOk \in BOOLEAN, patient_id \in SeedPatientIds \cup {NoId}, tests \in SUBSET TestNames :
       get_report_summary(textOk, patient_id, tests)

SpecData == InitData /\ [][NextData]_vars

\* the consent and assignment routes with account deletion, the requests
\* that change what the doctor's assignment list is joined from
NextConsents ==
  \/ \E body \in ConsentBodies : create_consent(body.patientId, body.doctorId, body.active)
  \/ \E consent_id \in {c.id : c \in consents} \cup {NoId} : revoke_consent(consent_id)
  \/ \E id \in {a.id : a \in assignments} \cup {NoId}, body \in AssignmentBodies :
       create_assignment(id, body.doctorId, body.patientId)
  \/ \E doctor_id \in DoctorIds : get_doctor_assignments(doctor_id)
  \/ \E patient_id \in SeedPatientIds \cup {NoId} : delete_patient_account(patient_id)

SpecConsents == InitData /\ [][NextConsents]_vars


\* ======================================================================
\* Questions about a report (routes/chat.py, utils/rag_processor.py) and
\* report deletion (routes/reports.py, MedicalReportDB.delete_report)
\* ======================================================================
HistoryLimit == 50       \* request.args.get('limit', 50, type=int)
MinQuestionLength == 3
Whitespace == {" "}
Question1 == <<"W", "h", "y", "?">>
PaddedQuestion == <<" ", "a", " ">>
BlankQuestion == <<" ", " ", " ">>
ShortQuestion == <<"a", "b">>
Questions == {Question1, PaddedQuestion, BlankQuestion, ShortQuestion}
Answers == {"answer"}
IndexPath == "faiss_index"
ReportIds == {1, 2, 3, NoId}

\* request bodies of POST /api/chat/ask: both fields, or one of them missing
Bodies ==
  [report_id : ReportIds, question : Questions]
    \cup [report_id : {1}] \cup [question : {Question1}]

\* medical_reports is shared with the Streamlit app (summary_service.py):
\* a processed report with a vector index and one still being processed
SeedReports ==
  {[report_id |-> 1, patient_id |-> 1, processed_status |-> "processed",
    faiss_index_path |-> IndexPath],
   [report_id |-> 2, patient_id |-> 2, processed_status |-> "pending",
    faiss_index_path |-> NoPath]}

InitChat ==
  /\ now = 0
  /\ patients = SeedPatients
  /\ verifications = {}
  /\ nextId = 3
  /\ regPin = [e \in Emails |-> IF e = "ann@x.io" THEN Pin1 ELSE Pin2]
  /\ resp = [op |-> "none", status |-> 0]
  /\ doctors = {}
  /\ patient_reports = {}
  /\ consents = {}
  /\ assignments = {}
  /\ medical_reports = SeedReports
  /\ test_results = {}
  /\ query_history = {}
  /\ requests = [w \in Workers |-> Idle]
  /\ faiss_indexes = {}

\* str.strip(): leading and trailing whitespace removed
RECURSIVE lstrip(_)
lstrip(q) ==
  IF q # <<>> /\ Head(q) \in Whitespace THEN lstrip(Tail(q)) ELSE q

RECURSIVE rstrip(_)
rstrip(q) ==
  IF q # <<>> /\ q[Len(q)] \in Whitespace THEN rstrip(SubSeq(q, 1, Len(q) - 1)) ELSE q

strip(q) == rstrip(lstrip(q))

\* the question test of ask_question without the strip() half
question_too_short_lengthOnly(question) ==
  Len(question) < MinQuestionLength

\* not question.strip() or len(question) < 3
question_too_short(question) ==
  strip(question) = <<>> \/ Len(question) < MinQuestionLength

\* SELECT * FROM medical_reports WHERE report_id = %s: the row, or none
get_report_by_id(report_id) == {m \in medical_reports : m.report_id = report_id}

\* a status test that lets every report through
not_processed_never(report) == FALSE

\* report['processed_status'] != 'processed'
not_processed(report) == report.processed_status # "processed"

\* RAGProcessor.answer_question raises when the vector store cannot be
\* loaded (no index path) or when the search or the model call fails
answer_question_raises(faiss_path, ragOk) == faiss_path = NoPath \/ ~ragOk

\* a save_query that stores nothing
save_query_dropped(rows, id, report_id, question, response) == rows

\* INSERT INTO query_history (report_id, user_question, ai_response)
save_query(rows, id, report_id, question, response) ==
  rows \cup {[id |-> id, report_id |-> report_id, user_question |-> question,
              ai_response |-> response]}

\* SELECT * FROM query_history WHERE report_id = %s ORDER BY query_time DESC:
\* newest first, as a sequence
RECURSIVE NewestFirst(_)
NewestFirst(rows) ==
  IF rows = {} THEN <<>>
  ELSE LET newest == CHOOSE h \in rows : \A g \in rows : g.id <= h.id
       IN  <<newest>> \o NewestFirst(rows \ {newest})

get_query_history(report_id) ==
  NewestFirst({h \in query_history : h.report_id = report_id})

\* history[:limit]
Truncate(history, limit) ==
  SubSeq(history, 1, IF Len(history) < limit THEN Len(history) ELSE limit)

\* DELETE FROM medical_reports WHERE report_id = %s
delete_report_rows(rows, report_id) == {m \in rows : m.report_id # report_id}

\* POST /api/chat/ask
ask_question(body, ragOk, answer) ==
  /\ UNCHANGED <<userVars, doctors, dataVars, medical_reports, test_results, requests, faiss_indexes>>
  /\ IF "report_id" \notin DOMAIN body \/ "question" \notin DOMAIN body
     THEN /\ resp' = [op |-> "ask_question", status |-> 400, body |-> body,
                      rag_invoked |-> FALSE]
          /\ UNCHANGED <<query_history, nextId>>
     ELSE IF question_too_short(body.question)
     THEN /\ resp' = [op |-> "ask_question", status |-> 400, body |-> body,
                      rag_invoked |-> FALSE]
          /\ UNCHANGED <<query_history, nextId>>
     ELSE IF get_report_by_id(body.report_id) = {}
     THEN /\ resp' = [op |-> "ask_question", status |-> 404, body |-> body,
                      rag_invoked |-> FALSE]
          /\ UNCHANGED <<query_history, nextId>>
     ELSE LET report == CHOOSE m \in get_report_by_id(body.report_id) : TRUE IN
          IF not_processed(report)
          THEN /\ resp' = [op |-> "ask_question", status |-> 400, body |-> body,
                           rag_invoked |-> FALSE]
               /\ UNCHANGED <<query_history, nextId>>
          ELSE IF answer_question_raises(report.faiss_index_path, ragOk)
          THEN /\ resp' = [op |-> "ask_question", status |-> 500, body |-> body,
                           rag_invoked |-> TRUE]
               /\ UNCHANGED <<query_history, nextId>>
          ELSE /\ nextId <= MaxIds
               /\ query_history' = save_query(query_history, nextId, body.report_id,
                                              body.question, answer)
               /\ nextId' = nextId + 1
               /\ resp' = [op |-> "ask_question", status |-> 200, body |-> body,
                           rag_invoked |-> TRUE, success |-> TRUE, answer |-> answer]

\* GET /api/chat/history/<report_id>
get_chat_history(report_id) ==
  /\ UNCHANGED <<userVars, nextId, doctors, dataVars, chatVars, requests, faiss_indexes>>
  /\ resp' = [op |-> "get_chat_history", status |-> 200, report_id |-> report_id,
              data |-> Truncate(get_query_history(report_id), HistoryLimit)]

\* DELETE /api/reports/<report_id>: MedicalReportDB.delete_report returns
\* rowcount > 0, the route answers 404 otherwise
delete_report(report_id) ==
  /\ UNCHANGED <<userVars, nextId, doctors, dataVars, test_results, query_history, requests, faiss_indexes>>
  /\ medical_reports' = delete_report_rows(medical_reports, report_id)
  /\ resp' = [op |-> "delete_report", report_id |-> report_id,
              status |-> IF get_report_by_id(report_id) # {} THEN 200 ELSE 404]

NextChat ==
  \/ \E body \in Bodies, ragOk \in BOOLEAN, answer \in Answers :
       ask_question(body, ragOk, answer)
  \/ \E report_id \in ReportIds : get_chat_history(report_id)
  \/ \E report_id \in ReportIds : delete_report(report_id)
  \/ \E textOk \in BOOLEAN, patient_id \in {1, NoId}, tests \in SUBSET TestNames :
       get_report_summary(textOk, patient_id, tests)

SpecChat == InitChat /\ [][NextChat]_vars

\* DELETE /api/chat/history/<report_id>/<int:history_id>: the handler runs no
\* statement and answers success
delete_chat_history(report_id, history_id) ==
  /\ UNCHANGED <<userVars, nextId, doctors, dataVars, chatVars, requests, faiss_indexes>>
  /\ resp' = [op |-> "delete_chat_history", status |-> 200, success |-> TRUE,
              message |-> "Chat history deleted",
              report_id |-> report_id, history_id |-> history_id]

\* the chat routes: ask, read the history, delete a message
NextHistory ==
  \/ \E body \in Bodies, ragOk \in BOOLEAN, answer \in Answers :
       ask_question(body, ragOk, answer)
  \/ \E report_id \in ReportIds : get_chat_history(report_id)
  \/ \E report_id \in ReportIds, history_id \in {h.id : h \in query_history} \cup {NoId} :
       delete_chat_history(report_id, history_id)

SpecHistory == InitChat /\ [][NextHistory]_vars


\* ======================================================================
\* Report upload (routes/reports.py: upload_report, get_report)
\* ======================================================================
PdfName == <<"r", ".", "p", "d", "f">>
TxtName == <<"r", ".", "t", "x", "t">>
BareName == <<"r", "p", "d", "f">>
EmptyName == <<>>
FileNames == {PdfName, TxtName, BareName, EmptyName}

\* the outcome of each processing step of one upload: text extraction,
\* chunking, vector-index creation, field extraction, summary generation
StepOutcomes ==
  [text : BOOLEAN, chunks : BOOLEAN, index : BOOLEAN, fields : BOOLEAN, summary : BOOLEAN]

\* an upload request: whether it has a 'file' part, the file's name, whether
\* its size is within MAX_FILE_SIZE, the form's patient_id and the steps
Uploads ==
  [hasFile : BOOLEAN, filename : FileNames, sizeOk : BOOLEAN,
   patient_id : {1, NoId}, steps : StepOutcomes]

\* '.' in filename
HasDot(filename) == \E i \in 1..Len(filename) : filename[i] = "."

\* allowed_file: '.' in filename and filename.rsplit('.', 1).lower() in
\* ALLOWED_EXTENSIONS.  Without a '.' the conjunction is False; with one,
\* rsplit returns a list, a list has no lower(), and the call raises
allowed_file(filename) ==
  IF ~HasDot(filename) THEN "False" ELSE "AttributeError"

\* faiss_path = f"faiss_index_{report_uuid}"
upload_faiss_path(id) == "faiss_index_" \o ToString(id)

\* POST /api/reports/upload
upload_report(u) ==
  /\ UNCHANGED <<userVars, doctors, dataVars, query_history, requests, faiss_indexes>>
  /\ IF ~u.hasFile \/ u.filename = EmptyName \/ allowed_file(u.filename) = "False"
     THEN /\ resp' = [op |-> "upload_report", status |-> 400, request |-> u]
          /\ UNCHANGED <<medical_reports, test_results, nextId>>
     ELSE IF allowed_file(u.filename) = "AttributeError"
     THEN /\ resp' = [op |-> "upload_report", status |-> 500, request |-> u]
          /\ UNCHANGED <<medical_reports, test_results, nextId>>
     ELSE IF ~u.sizeOk
     THEN /\ resp' = [op |-> "upload_report", status |-> 413, request |-> u]
          /\ UNCHANGED <<medical_reports, test_results, nextId>>
     ELSE IF ~u.steps.text \/ ~u.steps.chunks \/ ~u.steps.index
     THEN /\ resp' = [op |-> "upload_report", status |-> 500, request |-> u]
          /\ UNCHANGED <<medical_reports, test_results, nextId>>
     ELSE /\ nextId <= MaxIds
          /\ medical_reports' = save_report(medical_reports, nextId, u.patient_id,
                                            upload_faiss_path(nextId))
          /\ test_results' = IF u.steps.fields
                               THEN save_test_results(test_results, nextId, TestNames)
                               ELSE test_results
          /\ nextId' = nextId + 1
          /\ resp' = [op |-> "upload_report", status |-> 200, request |-> u,
                      success |-> TRUE, report_id |-> nextId]

\* GET /api/reports/<report_id> (routes/reports.py)
get_report(report_id) ==
  /\ UNCHANGED <<userVars, nextId, doctors, dataVars, chatVars, requests, faiss_indexes>>
  /\ resp' = IF get_report_by_id(report_id) = {}
               THEN [op |-> "get_report", status |-> 404, report_id |-> report_id]
               ELSE [op |-> "get_report", status |-> 200, report_id |-> report_id,
                     data |-> CHOOSE m \in get_report_by_id(report_id) : TRUE]

NextUpload ==
  \/ \E u \in Uploads : upload_report(u)
  \/ \E report_id \in ReportIds : get_report(report_id)
  \/ \E report_id \in ReportIds : delete_report(report_id)

SpecUpload == InitChat /\ [][NextUpload]_vars


\* ======================================================================
\* The data-access methods of db_config.py when the database fails
\* (DatabaseConnection.connect / get_connection and the try / except Error /
\* finally of each method)
\* ======================================================================
\* self.connection of the method's DatabaseConnection when the method is
\* called, whether a connect() made now succeeds, whether the statements do
ConnectionStates == {"None", "connected", "lost"}
DbCalls == [connection : ConnectionStates, connectOk : BOOLEAN, executeOk : BOOLEAN]

\* UserDB() raises unless its connect() succeeded: its methods run with a
\* connection object, alive or lost since
UserDbCalls == {c \in DbCalls : c.connection # "None"}

\* DatabaseConnection.connect: self.connection is assigned only when
\* mysql.connector.connect succeeds (its Error is caught)
connect(connection, connectOk) == IF connectOk THEN "connected" ELSE connection

\* DatabaseConnection.get_connection
get_connection(connection, connectOk) ==
  IF connection = "None" \/ connection # "connected"
    THEN connect(connection, connectOk)
    ELSE connection

\* conn.cursor(): None has no cursor (AttributeError), a lost connection
\* raises the connector's Error, a live one gives a cursor
cursor(conn) ==
  CASE conn = "None" -> "AttributeError"
    [] conn = "lost" -> "Error"
    [] OTHER -> "cursor"

\* how a method written as
\*   try: conn = get_connection(); cursor = conn.cursor(); execute...; return value
\*   except Error: return failure     finally: if cursor: cursor.close()
\* ends: without a cursor the name cursor is unbound in the finally clause,
\* and "if cursor" raises UnboundLocalError whatever the try part did
try_except_finally(call) ==
  LET conn == get_connection(call.connection, call.connectOk)
  IN  IF cursor(conn) # "cursor" THEN "UnboundLocalError"
      ELSE IF call.executeOk THEN "value"
      ELSE "failure"

\* MedicalReportDB.save_report: the report id, None on Error
call_save_report(call, patient_id) ==
  /\ UNCHANGED <<userVars, doctors, dataVars, test_results, query_history, requests, faiss_indexes>>
  /\ CASE try_except_finally(call) = "UnboundLocalError" ->
            /\ resp' = [op |-> "save_report", call |-> call, outcome |-> "raised",
                        exception |-> "UnboundLocalError"]
            /\ UNCHANGED <<medical_reports, nextId>>
       [] try_except_finally(call) = "failure" ->
            /\ resp' = [op |-> "save_report", call |-> call, outcome |-> "returned",
                        value |-> "None"]
            /\ UNCHANGED <<medical_reports, nextId>>
       [] OTHER ->
            /\ nextId <= MaxIds
            /\ medical_reports' = save_report(medical_reports, nextId, patient_id, NoPath)
            /\ nextId' = nextId + 1
            /\ resp' = [op |-> "save_report", call |-> call, outcome |-> "returned",
                        value |-> "report_id"]

\* MedicalReportDB.get_query_history: the rows, [] on Error
call_get_query_history(call, report_id) ==
  /\ UNCHANGED <<userVars, nextId, doctors, dataVars, chatVars, requests, faiss_indexes>>
  /\ resp' = CASE try_except_finally(call) = "UnboundLocalError" ->
                    [op |-> "get_query_history", call |-> call, outcome |-> "raised",
                     exception |-> "UnboundLocalError"]
               [] try_except_finally(call) = "failure" ->
                    [op |-> "get_query_history", call |-> call, outcome |-> "returned",
                     value |-> "[]"]
               [] OTHER ->
                    [op |-> "get_query_history", call |-> call, outcome |-> "returned",
                     value |-> "rows", rows |-> get_query_history(report_id)]

\* UserDB.delete_patient: rowcount > 0 of the last DELETE; on Error the
\* transaction is rolled back and False returned
call_delete_patient(call, patient_id) ==
  /\ UNCHANGED <<now, nextId, regPin, doctors, chatVars, requests, faiss_indexes>>
  /\ CASE try_except_finally(call) = "UnboundLocalError" ->
            /\ resp' = [op |-> "delete_patient", call |-> call, outcome |-> "raised",
                        exception |-> "UnboundLocalError"]
            /\ UNCHANGED <<patients, verifications, dataVars>>
       [] try_except_finally(call) = "failure" ->
            /\ resp' = [op |-> "delete_patient", call |-> call, outcome |-> "returned",
                        value |-> "False"]
            /\ UNCHANGED <<patients, verifications, dataVars>>
       [] OTHER ->
            /\ patient_reports' = delete_patient_reports(patient_reports, patient_id)
            /\ consents' = delete_patient_consents(consents, patient_id)
            /\ assignments' = delete_patient_assignments(assignments, patient_id)
            /\ verifications' = delete_patient_verifications(verifications, patient_id)
            /\ patients' = delete_patient_row(patients, patient_id)
            /\ resp' = [op |-> "delete_patient", call |-> call, outcome |-> "returned",
                        value |-> IF get_patient_by_id(patient_id) # {}
                                    THEN "True" ELSE "False"]

\* UserDB.verify_patient_pin: its except Exception also catches what
\* get_patient_by_email raises, and it has no finally clause
call_verify_patient_pin(call, email, pin) ==
  /\ UNCHANGED <<userVars, nextId, doctors, dataVars, chatVars, requests, faiss_indexes>>
  /\ resp' = [op |-> "verify_patient_pin", call |-> call, outcome |-> "returned",
              value |-> IF try_except_finally(call) = "value"
                             /\ verify_patient_pin(email, pin) # {}
                          THEN "patient" ELSE "None"]

NextDb ==
  \/ \E call \in DbCalls, patient_id \in {1, NoId} : call_save_report(call, patient_id)
  \/ \E call \in DbCalls, report_id \in ReportIds : call_get_query_history(call, report_id)
  \/ \E call \in UserDbCalls, patient_id \in SeedPatientIds \cup {NoId} :
       call_delete_patient(call, patient_id)
  \/ \E call \in UserDbCalls, email \in Emails, pin \in Pins :
       call_verify_patient_pin(call, email, pin)

SpecDb == InitChat /\ [][NextDb]_vars


\* ======================================================================
\* Field extraction from the LLM response (utils/rag_processor.py,
\* summary_service.py, rag-service/services/medical_extractor.py)
\* ======================================================================
\* a response text is a sequence of pieces: a ```json fence, a ``` fence, a
\* JSON document, prose, white space
FenceJson == "FENCE-JSON"   \* ```json
Fence == "FENCE"            \* ```
JsonDoc == "{diagnosis: flu}"
Prose == "Here is the result:"
Pieces == {FenceJson, Fence, JsonDoc, Prose, " "}

ResponseTexts == UNION {[1..n -> Pieces] : n \in 0..MaxTextLen}

EmptyDict == "{}"

\* "```json" in response_text / "```" in response_text: the ```json fence
\* contains ```
Contains(text, sep) ==
  \E k \in 1..Len(text) : text[k] = sep \/ (sep = Fence /\ text[k] = FenceJson)

\* the text as split("```") sees it: a ```json fence is ``` followed by json
RECURSIVE ExpandFences(_)
ExpandFences(text) ==
  IF text = <<>> THEN <<>>
  ELSE IF Head(text) = FenceJson THEN <<Fence, "json">> \o ExpandFences(Tail(text))
  ELSE <<Head(text)>> \o ExpandFences(Tail(text))

\* str.split(sep) on a text in which every occurrence of sep is one piece
RECURSIVE SplitAt(_, _)
SplitAt(text, sep) ==
  IF ~\E k \in 1..Len(text) : text[k] = sep THEN <<text>>
  ELSE LET k == CHOOSE n \in 1..Len(text) :
                  text[n] = sep /\ \A m \in 1..(n - 1) : text[m] # sep
       IN  <<SubSeq(text, 1, k - 1)>> \o SplitAt(SubSeq(text, k + 1, Len(text)), sep)

split(text, sep) ==
  IF sep = Fence THEN SplitAt(ExpandFences(text), Fence) ELSE SplitAt(text, sep)

\* json.loads(response_text.strip()): the parsed document as a dict literal,
\* or the ValueError of a text that is not one JSON document
json_loads(text) ==
  IF strip(text) = <<JsonDoc>> THEN "dict(diagnosis: flu)" ELSE "ValueError"

\* try: ... return value / except Exception: return {}
or_empty(result) ==
  IF result \in {"ValueError", "AttributeError"} THEN EmptyDict ELSE result

\* summary_service.extract_medical_info, from response.content on
summary_extract_medical_info(response_text) ==
  or_empty(
    IF Contains(response_text, FenceJson)
      THEN json_loads(split(split(response_text, FenceJson)[2], Fence)[1])
    ELSE IF Contains(response_text, Fence)
      THEN json_loads(split(split(response_text, Fence)[2], Fence)[1])
    ELSE json_loads(response_text))

\* MedicalExtractor.extract_info (rag-service), from response.content on
extract_info(response_text) ==
  or_empty(
    IF Contains(response_text, FenceJson)
      THEN json_loads(split(split(response_text, FenceJson)[2], Fence)[1])
    ELSE IF Contains(response_text, Fence)
      THEN json_loads(split(split(response_text, Fence)[2], Fence)[1])
    ELSE json_loads(response_text))

\* RAGProcessor.extract_medical_info (backend), from response.content on:
\* response_text.split("```json").split("```") calls split on the list the
\* first split returned, which raises AttributeError
extract_medical_info(response_text) ==
  or_empty(
    IF Contains(response_text, FenceJson) THEN "AttributeError"
    ELSE IF Contains(response_text, Fence) THEN "AttributeError"
    ELSE json_loads(response_text))

\* one extraction by each implementation
backend_extraction(response_text) ==
  /\ UNCHANGED <<userVars, nextId, doctors, dataVars, chatVars, requests, faiss_indexes>>
  /\ resp' = [op |-> "RAGProcessor.extract_medical_info", text |-> response_text,
              result |-> extract_medical_info(response_text)]

summary_extraction(response_text) ==
  /\ UNCHANGED <<userVars, nextId, doctors, dataVars, chatVars, requests, faiss_indexes>>
  /\ resp' = [op |-> "summary_service.extract_medical_info", text |-> response_text,
              result |-> summary_extract_medical_info(response_text)]

rag_service_extraction(response_text) ==
  /\ UNCHANGED <<userVars, nextId, doctors, dataVars, chatVars, requests, faiss_indexes>>
  /\ resp' = [op |-> "MedicalExtractor.extract_info", text |-> response_text,
              result |-> extract_info(response_text)]

NextExtract ==
  \/ \E response_text \in ResponseTexts : backend_extraction(response_text)
  \/ \E response_text \in ResponseTexts : summary_extraction(response_text)
  \/ \E response_text \in ResponseTexts : rag_service_extraction(response_text)

SpecExtract == InitChat /\ [][NextExtract]_vars


\* ======================================================================
\* Concurrent verify-email requests (routes/users.py verify_email): every
\* request runs in its own thread with its own UserDB connection, each SQL
\* statement with its commit is one step, and the steps of different
\* requests interleave
\* ======================================================================
\* the records two register requests left behind, one for each e-mail
PendingVerifications ==
  {[email |-> e, verification_code |-> "000111", pin |-> sha256(Pin1),
    expires_at |-> ExpiryMinutes, verified |-> FALSE, attempts |-> 0] : e \in Emails}

InitVerify ==
  /\ now = 0
  /\ patients = {}
  /\ verifications = PendingVerifications
  /\ nextId = 1
  /\ regPin = [e \in Emails |-> Pin1]
  /\ resp = [op |-> "none", status |-> 0]
  /\ doctors = {}
  /\ patient_reports = {}
  /\ consents = {}
  /\ assignments = {}
  /\ medical_reports = {}
  /\ test_results = {}
  /\ query_history = {}
  /\ requests = [w \in Workers |-> Idle]
  /\ faiss_indexes = {}

\* result['id']: the fetched row is the stored row with the same columns
\* outside verified and attempts, the two columns an UPDATE changes
SameRow(r, v) ==
  /\ r.email = v.email
  /\ r.verification_code = v.verification_code
  /\ r.pin = v.pin
  /\ r.expires_at = v.expires_at

\* UPDATE email_verifications SET verified = TRUE WHERE id = %s, run against
\* the table as it is when the statement executes
MarkVerifiedById(rows, v) ==
  {IF SameRow(r, v) THEN [r EXCEPT !.verified = TRUE] ELSE r : r \in rows}

\* the request arrives: the body is read, UserDB() connects
begin_verify_email(w, email, code) ==
  /\ UNCHANGED <<userVars, nextId, doctors, dataVars, chatVars, faiss_indexes>>
  /\ requests[w].pc = "idle"
  /\ IF email = NoValue \/ code = NoValue
     THEN /\ resp' = [op |-> "verify_email", status |-> 400, email |-> email, code |-> code]
          /\ UNCHANGED requests
     ELSE /\ requests' = [requests EXCEPT ![w] = [pc |-> "select", email |-> email, code |-> code]]
          /\ UNCHANGED resp

\* verify_email_code: the SELECT ... verified = FALSE AND attempts < 5 and fetchone()
select_verification(w) ==
  /\ UNCHANGED <<userVars, nextId, resp, doctors, dataVars, chatVars, faiss_indexes>>
  /\ requests[w].pc = "select"
  /\ LET r == requests[w]
         found == MatchingVerifications(r.email, r.code, now)
     IN IF found # {}
        THEN \E result \in found :
               requests' = [requests EXCEPT ![w] =
                 [pc |-> "update", email |-> r.email, code |-> r.code, result |-> result]]
        ELSE requests' = [requests EXCEPT ![w] =
                 [pc |-> "increment", email |-> r.email, code |-> r.code]]

\* verify_email_code, if result: mark the record verified, commit, return it
mark_verified(w) ==
  /\ UNCHANGED <<now, patients, nextId, regPin, resp, doctors, dataVars, chatVars, faiss_indexes>>
  /\ requests[w].pc = "update"
  /\ verifications' = MarkVerifiedById(verifications, requests[w].result)
  /\ requests' = [requests EXCEPT ![w].pc = "insert"]

\* verify_email_code, else: count the failed attempt, commit, return None;
\* the route answers 400
increment_attempts(w) ==
  /\ UNCHANGED <<now, patients, nextId, regPin, doctors, dataVars, chatVars, faiss_indexes>>
  /\ requests[w].pc = "increment"
  /\ \A v \in verifications : v.email = requests[w].email => v.attempts < MaxAttempts
  /\ verifications' = IncrementAttempts(verifications, requests[w].email)
  /\ resp' = [op |-> "verify_email", status |-> 400, email |-> requests[w].email,
              code |-> requests[w].code]
  /\ requests' = [requests EXCEPT ![w] = Idle]

\* create_patient_from_verification: INSERT INTO patients with a new uuid4, commit
insert_patient(w) ==
  /\ UNCHANGED <<now, verifications, regPin, resp, doctors, dataVars, chatVars, faiss_indexes>>
  /\ requests[w].pc = "insert"
  /\ nextId <= MaxIds
  /\ patients' = create_patient_from_verification(patients, requests[w].result, nextId)
  /\ nextId' = nextId + 1
  /\ requests' = [requests EXCEPT ![w] =
       [pc |-> "delete", email |-> requests[w].email, code |-> requests[w].code,
        result |-> requests[w].result, patient_id |-> nextId]]

\* delete_verification(email), commit; the route answers 201
finish_verify_email(w) ==
  /\ UNCHANGED <<now, patients, nextId, regPin, doctors, dataVars, chatVars, faiss_indexes>>
  /\ requests[w].pc = "delete"
  /\ verifications' = delete_verification(verifications, requests[w].email)
  /\ resp' = [op |-> "verify_email", status |-> 201, email |-> requests[w].email,
              code |-> requests[w].code, patientId |-> requests[w].patient_id]
  /\ requests' = [requests EXCEPT ![w] = Idle]

NextVerify ==
  \/ \E w \in Workers, email \in Emails \cup {NoValue}, code \in Codes \cup {NoValue} :
       begin_verify_email(w, email, code)
  \/ \E w \in Workers : select_verification(w)
  \/ \E w \in Workers : mark_verified(w)
  \/ \E w \in Workers : increment_attempts(w)
  \/ \E w \in Workers : insert_patient(w)
  \/ \E w \in Workers : finish_verify_email(w)

SpecVerify == InitVerify /\ [][NextVerify]_vars


\* ======================================================================
\* RAG service (rag-service/app.py, services/rag_engine.py): process-report
\* builds and saves an index, chat loads the index of a report id
\* ======================================================================
MinTextLength == 50      \* len(raw_text.strip()) < 50
TopK == 3                \* similarity_search(question, k=3)
NoPatientId == <<>>      \* the form field patient_id is absent: Form(None)
RagPatientIds == {<<"a">>, <<"a", "_", "b">>, NoPatientId}
RagFileNames == {<<"c", ".", "p", "d", "f">>, <<"b", "_", "c", ".", "p", "d", "f">>}
PdfSuffix == <<".", "p", "d", "f">>
FaissDir == <<"f", "a", "i", "s", "s", "_", "i", "n", "d", "e", "x", "e", "s">>
\* the uploaded PDFs by the text extract_text reads from them and the
\* length of that text once stripped
Documents ==
  {[text |-> "report A", length |-> 60],
   [text |-> "report B", length |-> 60],
   [text |-> "blank scan", length |-> 10]}
\* an upload with the outcome of FAISS.from_texts / save_local and of the
\* steps after it (extraction result validated by ReportAnalysis, os.unlink)
RagUploads ==
  [patient_id : RagPatientIds, filename : RagFileNames, document : Documents,
   storeOk : BOOLEAN, responseOk : BOOLEAN]

\* str.replace(old, new): every occurrence, left to right
RECURSIVE replace(_, _, _)
replace(s, old, new) ==
  IF Len(s) < Len(old) THEN s
  ELSE IF SubSeq(s, 1, Len(old)) = old
       THEN new \o replace(SubSeq(s, Len(old) + 1, Len(s)), old, new)
       ELSE <<Head(s)>> \o replace(Tail(s), old, new)

\* {patient_id} inside the f-string: None is formatted as the text None
format_patient_id(patient_id) ==
  IF patient_id = NoPatientId THEN <<"N", "o", "n", "e">> ELSE patient_id

\* f"RPT_{patient_id}_{file.filename.replace('.pdf', '')}"
make_report_id(patient_id, filename) ==
  <<"R", "P", "T", "_">> \o format_patient_id(patient_id) \o <<"_">> \o
    replace(filename, PdfSuffix, <<>>)

\* f"{faiss_dir}/{report_id}", the same string chat builds from the request
make_faiss_path(report_id) == FaissDir \o <<"/">> \o report_id

\* PDFProcessor.create_chunks: a text shorter than chunk_size is one chunk
create_chunks(raw_text) == <<raw_text.text>>

\* vector_store.save_local(faiss_path): the files under the path are
\* written anew, whatever index was saved there before
save_local(indexes, faiss_path, text_chunks) ==
  {i \in indexes : i.path # faiss_path} \cup
    {[path |-> faiss_path, chunks |-> text_chunks]}

\* FAISS.load_local(faiss_path, ...); the empty set when os.path.exists fails
load_local(faiss_path) == {i \in faiss_indexes : i.path = faiss_path}

\* vector_store.similarity_search(question, k): k of the stored chunks, all
\* of them when the store holds fewer
similarity_search(vector_store, k) ==
  LET stored == {vector_store.chunks[n] : n \in 1..Len(vector_store.chunks)}
  IN {docs \in SUBSET stored :
        Cardinality(docs) = IF Cardinality(stored) < k THEN Cardinality(stored) ELSE k}

\* POST /api/rag/process-report
process_report(u) ==
  /\ UNCHANGED <<userVars, nextId, doctors, dataVars, chatVars, requests>>
  /\ LET report_id == make_report_id(u.patient_id, u.filename)
         faiss_path == make_faiss_path(report_id)
         failed(code) == [op |-> "process_report", status |-> code,
                          patient_id |-> u.patient_id, filename |-> u.filename,
                          document |-> u.document]
     IN IF u.document.length < MinTextLength
        THEN /\ resp' = failed(400)
             /\ UNCHANGED faiss_indexes
        ELSE IF ~u.storeOk
        THEN /\ resp' = failed(500)
             /\ UNCHANGED faiss_indexes
        ELSE /\ faiss_indexes' = save_local(faiss_indexes, faiss_path, create_chunks(u.document))
             /\ resp' = IF u.responseOk
                        THEN [op |-> "process_report", status |-> 200,
                              patient_id |-> u.patient_id, filename |-> u.filename,
                              document |-> u.document,
                              report_id |-> report_id, faiss_path |-> faiss_path]
                        ELSE failed(500)

\* POST /api/rag/chat with RAGEngine.query, which turns every failure into
\* an answer text
chat_with_report(report_id, llmOk) ==
  /\ UNCHANGED <<userVars, nextId, doctors, dataVars, chatVars, requests, faiss_indexes>>
  /\ IF load_local(make_faiss_path(report_id)) = {}
     THEN resp' = [op |-> "chat_with_report", status |-> 200, report_id |-> report_id,
                   answer |-> "Error: Report index not found", docs |-> {}]
     ELSE \E vector_store \in load_local(make_faiss_path(report_id)) :
          \E docs \in similarity_search(vector_store, TopK) :
            resp' = [op |-> "chat_with_report", status |-> 200, report_id |-> report_id,
                     answer |-> IF llmOk THEN "answer" ELSE "Error processing question",
                     docs |-> docs]

NextRag ==
  \/ \E u \in RagUploads : process_report(u)
  \/ \E patient_id \in RagPatientIds, filename \in RagFileNames, llmOk \in BOOLEAN :
       chat_with_report(make_report_id(patient_id, filename), llmOk)

SpecRag == Init /\ [][NextRag]_vars

\* ======================================================================
\* Properties of registration, verification and login
\* ======================================================================

\* the step is a request: handlers run within one reading of the clock
IsRequest == now' = now

\* a pending record of email whose code is code: unexpired, not verified, attempts < 5
ValidCode(email, code) ==
  \E v \in verifications :
    /\ v.email = email
    /\ v.verification_code = code
    /\ now < v.expires_at
    /\ ~v.verified
    /\ v.attempts < 5

\* C1: a patient row for an e-mail is created only by a verify-email request
\* carrying the code of that e-mail's current record while the record is
\* unexpired, unverified and has fewer than 5 attempts; every other
\* verify-email request answers 400 and creates no patient.
C1_PatientOnlyByValidCode ==
  [][ /\ \A p \in patients' \ patients :
           /\ resp'.op = "verify_email"
           /\ resp'.status = 201
           /\ resp'.email = p.email
           /\ ValidCode(p.email, resp'.code)
      /\ (IsRequest /\ resp'.op = "verify_email" /\ ~ValidCode(resp'.email, resp'.code))
           => (resp'.status = 400 /\ patients' = patients)
    ]_vars

\* a verify-email request has just created the patient it reports
C1_Witness ==
  /\ resp.op = "verify_email"
  /\ resp.status = 201
  /\ \E p \in patients : p.id = resp.patientId /\ p.email = resp.email

\* C2: a patient registered with PIN p (with or without a resend) logs in
\* with a PIN q iff q = p (200 with the patient, 401 otherwise); the stored
\* PIN is the hash of p applied once, and the login response carries no pin.
C2_PinRoundTrip ==
  [][ /\ \A p \in patients' : p.pin = sha256(regPin'[p.email])
      /\ (/\ IsRequest
          /\ resp'.op = "login_patient"
          /\ resp'.pin \in Pins
          /\ \E p \in patients : p.email = resp'.email)
           => /\ resp'.status = IF resp'.pin = regPin[resp'.email] THEN 200 ELSE 401
              /\ resp'.status = 200 =>
                   /\ DOMAIN resp'.patient = {"id", "email"}
                   /\ resp'.patient.email = resp'.email
                   /\ \E p \in patients : p.id = resp'.patient.id /\ p.email = resp'.email
    ]_vars

\* a registered patient has just logged in with the PIN of the register request
C2_Witness ==
  /\ resp.op = "login_patient"
  /\ resp.status = 200
  /\ resp.pin = regPin[resp.email]
  /\ \E p \in patients : p.id = resp.patient.id /\ p.pin = sha256(resp.pin)

\* C3: a well-formed register request for the e-mail of an active patient
\* answers 409, leaves email_verifications untouched and sends no mail; no
\* two active patients ever share an e-mail.
C3_DuplicateEmailRejected ==
  [][ /\ (/\ IsRequest
          /\ resp'.op = "register_patient"
          /\ resp'.pin \in Pins
          /\ \E p \in patients : p.email = resp'.email /\ p.is_active)
           => (resp'.status = 409 /\ ~resp'.mailed /\ verifications' = verifications)
      /\ \A p1, p2 \in patients' :
           (p1.is_active /\ p2.is_active /\ p1.email = p2.email) => p1 = p2
    ]_vars

\* a register request was refused for the e-mail of an existing patient
C3_Witness ==
  /\ resp.op = "register_patient"
  /\ resp.status = 409
  /\ \E p \in patients : p.email = resp.email

\* C4: a record created by register or resend expires 10 minutes later; a
\* verify-email request made at or after the expiry answers 400 and creates
\* no patient, whatever its code.
C4_ExpiresAfterTenMinutes ==
  [][ /\ \A v \in verifications' \ verifications :
           (v.attempts = 0 /\ ~v.verified) => v.expires_at = now + 10
      /\ (/\ IsRequest
          /\ resp'.op = "verify_email"
          /\ \A v \in verifications : v.email = resp'.email => now >= v.expires_at)
           => (resp'.status = 400 /\ patients' = patients)
    ]_vars

\* the right code was refused: its record had expired and this was the
\* first failed attempt on it
C4_Witness ==
  /\ resp.op = "verify_email"
  /\ resp.status = 400
  /\ \E v \in verifications :
       /\ v.email = resp.email
       /\ v.verification_code = resp.code
       /\ ~v.verified
       /\ v.attempts = 1
       /\ now = v.expires_at

\* ======================================================================
\* Properties of doctor accounts
\* ======================================================================

\* C5: a doctor stored by POST /api/doctors/register is unverified whatever
\* the request body; verified becomes true only through
\* POST /api/doctors/<doctor_id>/verify, and never becomes false again.
C5_RegisteredDoctorPending ==
  [][ /\ (IsRequest /\ resp'.op = "register_doctor" /\ resp'.status = 201)
           => \A d \in doctors' : d.id = resp'.doctorId => ~d.verified
      /\ \A d \in doctors' :
           (d.verified /\ ~\E d0 \in doctors : d0.id = d.id /\ d0.verified)
             => (resp'.op = "verify_doctor_account" /\ resp'.doctor_id = d.id)
      /\ \A d \in doctors' :
           (\E d0 \in doctors : d0.id = d.id /\ d0.verified) => d.verified
    ]_vars
\* ======================================================================
\* Properties of consents, assignments and account deletion
\* ======================================================================

\* C6: GET /api/doctors/<d>/assignments lists an assignment of patient p to
\* doctor d iff a consent of d and p with active = TRUE exists at that
\* moment; once all such consents are revoked the assignment is not listed.
C6_AssignmentsNeedActiveConsent ==
  [][ (IsRequest /\ resp'.op = "get_doctor_assignments")
        => /\ \A a \in assignments :
                a.doctor_id = resp'.doctor_id
                  => ((\E r \in resp'.assignments : r.id = a.id /\ r.patientId = a.patient_id)
                        <=> \E c \in consents :
                              c.doctor_id = a.doctor_id /\ c.patient_id = a.patient_id /\ c.active)
           /\ \A r \in resp'.assignments :
                \E a \in assignments : a.id = r.id /\ a.doctor_id = resp'.doctor_id
    ]_vars

\* an assignment whose consents have all been revoked is missing from the
\* list just returned for its doctor
C6_Witness ==
  /\ resp.op = "get_doctor_assignments"
  /\ \E a \in assignments :
       /\ a.doctor_id = resp.doctor_id
       /\ \E c \in consents : c.doctor_id = a.doctor_id /\ c.patient_id = a.patient_id
       /\ \A c \in consents :
            (c.doctor_id = a.doctor_id /\ c.patient_id = a.patient_id) => ~c.active
       /\ ~\E r \in resp.assignments : r.id = a.id

\* C7: after DELETE /api/patients/<patient_id> succeeds the profile is gone
\* and no report, medical report, consent, assignment or verification record
\* of that patient remains in any table; other patients' rows are unchanged.
C7_DeleteRemovesAllPatientData ==
  [][ (IsRequest /\ resp'.op = "delete_patient_account" /\ resp'.status = 200)
        => /\ ~\E q \in patients' : q.id = resp'.patient_id
           /\ ~\E r \in patient_reports' : r.patient_id = resp'.patient_id
           /\ ~\E m \in medical_reports' : m.patient_id = resp'.patient_id
           /\ ~\E c \in consents' : c.patient_id = resp'.patient_id
           /\ ~\E a \in assignments' : a.patient_id = resp'.patient_id
           /\ ~\E v \in verifications', q \in patients :
                 q.id = resp'.patient_id /\ v.email = q.email
           /\ {q \in patients' : q.id # resp'.patient_id}
                = {q \in patients : q.id # resp'.patient_id}
           /\ {r \in patient_reports' : r.patient_id # resp'.patient_id}
                = {r \in patient_reports : r.patient_id # resp'.patient_id}
           /\ {m \in medical_reports' : m.patient_id # resp'.patient_id}
                = {m \in medical_reports : m.patient_id # resp'.patient_id}
           /\ {c \in consents' : c.patient_id # resp'.patient_id}
                = {c \in consents : c.patient_id # resp'.patient_id}
           /\ {a \in assignments' : a.patient_id # resp'.patient_id}
                = {a \in assignments : a.patient_id # resp'.patient_id}
    ]_vars
\* ======================================================================
\* Properties of the chat and report-deletion routes
\* ======================================================================
HasBothFields(body) == {"report_id", "question"} \subseteq DOMAIN body

BlankOrShort(q) == (\A i \in 1..Len(q) : q[i] = " ") \/ Len(q) < 3

\* C8: POST /api/chat/ask answers (200) only for a report that exists with
\* processed_status 'processed'; a missing field, a blank or short question
\* and a report in another status give 400, an unknown report_id gives 404
\* (field and question checks first); no rejected request invokes the RAG
\* pipeline or writes query_history.
C8_AskRejections ==
  [][ (IsRequest /\ resp'.op = "ask_question")
        => LET b == resp'.body
               known == IF "report_id" \in DOMAIN b
                          THEN {m \in medical_reports : m.report_id = b.report_id}
                          ELSE {}
           IN  /\ resp'.status = 200
                    => (HasBothFields(b) /\ known # {}
                          /\ \A m \in known : m.processed_status = "processed")
               /\ ~HasBothFields(b) => resp'.status = 400
               /\ (HasBothFields(b) /\ BlankOrShort(b.question)) => resp'.status = 400
               /\ (HasBothFields(b) /\ ~BlankOrShort(b.question) /\ known = {})
                    => resp'.status = 404
               /\ (HasBothFields(b) /\ ~BlankOrShort(b.question) /\ known # {}
                     /\ \E m \in known : m.processed_status # "processed")
                    => resp'.status = 400
               /\ resp'.status \in {400, 404}
                    => (~resp'.rag_invoked /\ query_history' = query_history)
    ]_vars

\* a well-formed question about a report that is still being processed was
\* rejected with 400 after an earlier question had been answered and stored
C8_Witness ==
  /\ resp.op = "ask_question" /\ resp.status = 400
  /\ HasBothFields(resp.body) /\ ~BlankOrShort(resp.body.question)
  /\ \E m \in medical_reports :
       m.report_id = resp.body.report_id /\ m.processed_status = "pending"
  /\ ~resp.rag_invoked
  /\ query_history # {}

C10_DeleteReportRemovesAssociatedData ==
  [][ (IsRequest /\ resp'.op = "delete_report")
        => IF resp'.status = 200
             THEN /\ ~\E m \in medical_reports' : m.report_id = resp'.report_id
                  /\ ~\E t \in test_results' : t.report_id = resp'.report_id
                  /\ ~\E h \in query_history' : h.report_id = resp'.report_id
             ELSE /\ resp'.status = 404
                  /\ UNCHANGED <<medical_reports, test_results, query_history>>
    ]_vars
\* C11: after DELETE /api/chat/history/<report_id>/<history_id> has answered
\* success ('Chat history deleted'), a GET /api/chat/history/<report_id>
\* that follows it does not return the entry history_id.
C11_DeletedMessageNotReturned ==
  [][ (/\ resp.op = "delete_chat_history"
       /\ resp.status = 200
       /\ resp.message = "Chat history deleted"
       /\ resp'.op = "get_chat_history"
       /\ resp'.report_id = resp.report_id)
        => \A i \in 1..Len(resp'.data) : resp'.data[i].id # resp.history_id
    ]_vars
\* ======================================================================
\* Properties of the report upload
\* ======================================================================

\* the upload carries a PDF within the size limit and every step completes
UploadCompletes(u) ==
  /\ u.hasFile
  /\ Len(u.filename) > 4
  /\ SubSeq(u.filename, Len(u.filename) - 3, Len(u.filename)) = <<".", "p", "d", "f">>
  /\ u.sizeOk
  /\ u.steps.text /\ u.steps.chunks /\ u.steps.index /\ u.steps.fields /\ u.steps.summary

DbMethods == {"save_report", "get_query_history", "delete_patient", "verify_patient_pin"}

\* no connection could be established for the call, or its statements failed
DbFailed(call) ==
  \/ (call.connection # "connected" /\ ~call.connectOk)
  \/ ~call.executeOk

\* C13: a data-access method never raises; a database failure, a connection
\* that cannot be established included, comes back as its return value
\* (None, False or an empty list).
C13_FailuresAreReturned ==
  resp.op \in DbMethods
    => /\ resp.outcome = "returned"
       /\ DbFailed(resp.call) => resp.value \in {"None", "False", "[]"}
\* ======================================================================
\* Properties of field extraction
\* ======================================================================
Extractors ==
  {"RAGProcessor.extract_medical_info", "summary_service.extract_medical_info",
   "MedicalExtractor.extract_info"}

IsFence(piece) == piece \in {"FENCE", "FENCE-JSON"}

\* the pieces between the fence at position k and the next fence
BlockAfter(text, k) ==
  LET ends == {j \in (k + 1)..Len(text) : IsFence(text[j])}
      stop == IF ends = {} THEN Len(text) + 1
              ELSE CHOOSE j \in ends : \A e \in ends : j <= e
  IN  [n \in 1..(stop - k - 1) |-> text[k + n]]

\* the content of the first ```json block, else of the first ``` block,
\* else the whole text
JsonSource(text) ==
  LET opens == IF \E k \in 1..Len(text) : text[k] = "FENCE-JSON"
                 THEN {k \in 1..Len(text) : text[k] = "FENCE-JSON"}
                 ELSE {k \in 1..Len(text) : text[k] = "FENCE"}
  IN  IF opens = {} THEN text
      ELSE BlockAfter(text, CHOOSE k \in opens : \A o \in opens : k <= o)

\* the document the text holds when it is one JSON document surrounded by
\* white space only, the empty dict otherwise
ParsedOrEmpty(text) ==
  IF /\ Cardinality({k \in 1..Len(text) : text[k] # " "}) = 1
     /\ \E k \in 1..Len(text) : text[k] = "{diagnosis: flu}"
    THEN "dict(diagnosis: flu)"
    ELSE "{}"

\* C14: for every response text each of the three extractors returns the
\* JSON object parsed from the content of the first ```json (else ```)
\* fenced block when there is one, from the whole text otherwise, and the
\* empty dict when that does not parse: the three results are the same.
C14_ExtractorsAgree ==
  resp.op \in Extractors => resp.result = ParsedOrEmpty(JsonSource(resp.text))

\* C15: a verification code is single-use under concurrency: however the
\* statements of verify-email requests carrying the same valid code for the
\* same e-mail interleave, at most one patient row exists for that e-mail.
C15_OnePatientPerCode ==
  \A email \in Emails :
    Cardinality({p \in patients : p.email = email}) <= 1

\* C16: two process-report calls on different uploads (another patient or
\* another file content) never return the same report_id and never write to
\* the same index path, so that a chat for a report id reads the index of
\* the one call that returned it; stated for two calls that follow each other.
C16_ReportIdsDistinct ==
  [][(/\ resp.op = "process_report" /\ resp.status = 200
      /\ resp'.op = "process_report" /\ resp'.status = 200
      /\ (resp.patient_id # resp'.patient_id \/ resp.document # resp'.document))
     => (/\ resp'.report_id # resp.report_id
         /\ resp'.faiss_path # resp.faiss_path)]_vars

====
